---- MODULE Spec2Model ----
(***************************************************************************)
(* Model of scripts/validateSummaries.mjs: the summary audit script.       *)
(*                                                                         *)
(* A process run loads summary/dismissed.json (lines 21-29), asks which    *)
(* directories to validate (lines 120-130) and calls validateSummaries on  *)
(* each selected directory in turn (lines 132-134).  An uncaught error     *)
(* ends the process with status 1 (lines 135-138).                         *)
(*                                                                         *)
(* A relative path is a sequence of tokens (directory names, "/" and file  *)
(* names), so that the string tests of line 37 are computed, not assumed.  *)
(***************************************************************************)
EXTENDS Integers, Sequences, FiniteSets, TLC

\* Modification times range over 0..MaxTime.
MaxTime == 1

\* Longest argument list tried when recording dismissals twice.
MaxRecordLen == 2

(***************************************************************************)
(* Fixed data of the script and of the audited repository.                 *)
(***************************************************************************)
summarySubDir == "summary"

\* The checkbox choices, in their order (labels of lines 126-127).
Choices == <<"Backend", "Frontend">>

Labels == {Choices[i] : i \in 1..Len(Choices)}

\* The root directory statically mapped to each label (lines 126-127).
DirPath(label) == IF label = "Backend" THEN "backend" ELSE "frontend"

FileA == <<"a.txt">>

FileB == <<"b.txt">>

\* stdout of `git ls-files` split on '\n' (lines 34-36): the last element is
\* the empty string left by the trailing newline.
GitLsFiles(label) ==
  IF label = "Backend"
    THEN << FileA,
            <<"node_modules", "/", "x.js">>,
            <<summarySubDir, "/", "a.txt.summary.txt">>,
            FileB,
            <<>> >>
    ELSE << <<"src", "/", "node_modules", "/", "y.js">>,
            FileA,
            <<>> >>

Range(s) == {s[i] : i \in 1..Len(s)}

\* file.includes('node_modules') (line 37), at token granularity
Includes(file, word) == \E i \in 1..Len(file) : file[i] = word

\* file.startsWith(`${summarySubDir}/`) (line 37)
StartsWithDir(file, dir) == Len(file) >= 2 /\ file[1] = dir /\ file[2] = "/"

\* line 37 without its startsWith test
KeepLineOutsideCache(file) ==
  /\ Len(file) > 0
  /\ ~Includes(file, "node_modules")

\* the filter predicate of line 37
KeepLine(file) ==
  /\ Len(file) > 0
  /\ ~Includes(file, "node_modules")
  /\ ~StartsWithDir(file, summarySubDir)

\* path.join(targetDir, file) (line 38)
PathJoin(targetDir, file) == <<targetDir, file>>

\* path.relative(targetDir, file) (line 56)
PathRelative(targetDir, file) ==
  IF file[1] = targetDir THEN file[2] ELSE <<"..", "/">> \o file[2]

\* getGitTrackedFiles (lines 32-43); gitOk = FALSE is execAsync rejecting
getGitTrackedFiles(label, gitOk) ==
  IF gitOk
    THEN LET files == SelectSeq(GitLsFiles(label), KeepLine)
         IN  [i \in 1..Len(files) |-> PathJoin(DirPath(label), files[i])]
    ELSE <<>>

\* The working-tree files whose times are modelled; any other tracked path
\* (dependency caches, the summary folder itself) has no summary of its own.
SourceFiles ==
  {<<"Backend", FileA>>, <<"Backend", FileB>>, <<"Frontend", FileA>>}

(***************************************************************************)
(* State.                                                                  *)
(***************************************************************************)
VARIABLES
  srcMtime,          \* [<<label, path>>]: mtime of the source file
  summary,           \* [<<label, path>>]: [exists, mtime] of <path>.summary.txt
  dismissedFile,     \* summary/dismissed.json: [exists, text]
  dismissed,         \* the module variable `dismissed` (line 21)
  pc,                \* position of the process
  directories,       \* answer of the checkbox prompt (line 120)
  idx,               \* position of the for loop of line 132
  dirLabel,          \* latest validateSummaries call: its dirLabel
  allFiles,          \*   its allFiles
  missingSummaries,  \*   its missingSummaries
  outdatedSummaries, \*   its outdatedSummaries
  suppressed,        \*   the paths for which the test of line 66 was false
  gitError,          \*   whether its getGitTrackedFiles logged line 40
  action,            \*   its action (line 93), "" before the answer
  pass,              \* [label]: how far the pass of each directory got in this run
  prompts,           \* [label]: action prompts issued for the directory in this run
  chosen,            \* [label]: outdated paths the user chose to dismiss
  saved              \* [label]: those of them whose writeJSON returned

vars == <<srcMtime, summary, dismissedFile, dismissed, pc, directories, idx,
          dirLabel, allFiles, missingSummaries, outdatedSummaries, suppressed,
          gitError, action, pass, prompts, chosen, saved>>

fsVars == <<srcMtime, summary>>

frameVars == <<dirLabel, allFiles, missingSummaries, outdatedSummaries, suppressed,
               gitError>>

\* line 73 with the second operand of && left out
NothingMissing(missing, outdated) == Len(missing) = 0

\* the test of line 73
NothingToReport(missing, outdated) == Len(missing) = 0 /\ Len(outdated) = 0

historyVars == <<chosen, saved>>

Times == 0..MaxTime

NoSummary == [exists |-> FALSE, mtime |-> 0]

SummaryStates == {NoSummary} \cup {[exists |-> TRUE, mtime |-> t] : t \in Times}

\* `{}` (line 21)
EmptyObject == [l \in {} |-> <<>>]

(***************************************************************************)
(* dismissed.json as text: the entries of the object, one per key.         *)
(***************************************************************************)
RECURSIVE StringifyFrom(_, _)
StringifyFrom(obj, i) ==
  IF i > Len(Choices) THEN <<>>
  ELSE (IF Choices[i] \in DOMAIN obj
          THEN << <<Choices[i], obj[Choices[i]]>> >>
          ELSE <<>>) \o StringifyFrom(obj, i + 1)

\* a serialisation that leaves out the keys whose array is empty
StringifyNonEmpty(obj) ==
  LET NonEmpty(e) == e[2] # <<>> IN SelectSeq(StringifyFrom(obj, 1), NonEmpty)

\* fs.writeJSON's serialisation of an object of arrays (lines 28, 111)
Stringify(obj) == StringifyFrom(obj, 1)

\* line 25 with the object that was read thrown away
ParseJSONIgnored(text) == EmptyObject

\* fs.readJSON (line 25): the last entry of a key wins
ParseJSON(text) ==
  [l \in {text[i][1] : i \in 1..Len(text)} |->
     text[CHOOSE i \in 1..Len(text) :
            /\ text[i][1] = l
            /\ \A j \in (i + 1)..Len(text) : text[j][1] # l][2]]

\* line 53 with a default that is not empty
EnsureRecordSeeded(obj, label) ==
  IF label \in DOMAIN obj THEN obj
  ELSE [l \in DOMAIN obj \cup {label} |-> IF l = label THEN <<FileA>> ELSE obj[l]]

\* line 53 without `dismissed[dirLabel] ||`: the array starts empty in each pass
EnsureRecordReset(obj, label) ==
  [l \in DOMAIN obj \cup {label} |-> IF l = label THEN <<>> ELSE obj[l]]

\* dismissed[dirLabel] || [] (line 53)
EnsureRecord(obj, label) ==
  IF label \in DOMAIN obj THEN obj
  ELSE [l \in DOMAIN obj \cup {label} |-> IF l = label THEN <<>> ELSE obj[l]]

\* line 110 without the Set: [...items]
UniqueNot(items) == items

\* [...new Set(items)] (line 110): first occurrences, in order
RECURSIVE Unique(_)
Unique(items) ==
  IF items = <<>> THEN <<>>
  ELSE LET front == Unique(SubSeq(items, 1, Len(items) - 1))
           last  == items[Len(items)]
       IN  IF last \in Range(front) THEN front ELSE Append(front, last)

\* line 110 without ...dismissed[dirLabel]: the old records are overwritten
RecordDismissalsOnly(old, toDismiss) == Unique(toDismiss)

\* [...new Set([...dismissed[dirLabel], ...toDismiss])] (line 110)
RecordDismissals(old, toDismiss) == Unique(old \o toDismiss)

(***************************************************************************)
(* The classification loop of validateSummaries (lines 55-71).             *)
(***************************************************************************)
\* fs.existsSync(summaryPath) (line 59)
SummaryExists(label, rel) ==
  <<label, rel>> \in DOMAIN summary /\ summary[<<label, rel>>].exists

\* line 64 with the operands of > exchanged
SourceNewerReversed(label, rel) ==
  summary[<<label, rel>>].mtime > srcMtime[<<label, rel>>]

\* line 64 with >= for >
SourceNewerOrEqual(label, rel) ==
  srcMtime[<<label, rel>>] >= summary[<<label, rel>>].mtime

\* fileStat.mtime > summaryStat.mtime (line 64)
SourceNewer(label, rel) ==
  srcMtime[<<label, rel>>] > summary[<<label, rel>>].mtime

\* line 66 looking in the arrays of all the labels
IsDismissedAnywhere(obj, label, rel) ==
  \E l \in DOMAIN obj : rel \in Range(obj[l])

\* line 66 with the test left out
IsDismissedNever(obj, label, rel) == FALSE

\* dismissed[dirLabel].includes(relativePath) (line 66)
IsDismissed(obj, label, rel) == rel \in Range(obj[label])

RelativePaths(label, files) ==
  [i \in 1..Len(files) |-> PathRelative(DirPath(label), files[i])]

\* lines 59-60 with the dismissal test of line 66 applied to missing files too
MissingOfUnlessDismissed(label, files) ==
  LET Test(rel) == /\ ~SummaryExists(label, rel)
                   /\ ~(label \in DOMAIN dismissed /\ rel \in Range(dismissed[label]))
  IN  SelectSeq(RelativePaths(label, files), Test)

\* lines 59-60
MissingOf(label, files) ==
  LET Test(rel) == ~SummaryExists(label, rel)
  IN  SelectSeq(RelativePaths(label, files), Test)

\* lines 61-68
OutdatedOf(obj, label, files) ==
  LET Test(rel) == /\ SummaryExists(label, rel)
                   /\ SourceNewer(label, rel)
                   /\ ~IsDismissed(obj, label, rel)
  IN  SelectSeq(RelativePaths(label, files), Test)

\* lines 61-66 with the test of line 66 false: nothing is pushed
SuppressedOf(obj, label, files) ==
  LET Test(rel) == /\ SummaryExists(label, rel)
                   /\ SourceNewer(label, rel)
                   /\ IsDismissed(obj, label, rel)
  IN  SelectSeq(RelativePaths(label, files), Test)

\* statSync is called (lines 62-63) for the files whose summary exists
StatCalled(label, files) ==
  \E i \in 1..Len(files) : SummaryExists(label, PathRelative(DirPath(label), files[i]))

(***************************************************************************)
(* Initial state: no process yet, no dismissed.json, any file times.       *)
(***************************************************************************)
NoPass == [l \in Labels |-> "Idle"]

NoPrompts == [l \in Labels |-> 0]

NoPaths == [l \in Labels |-> {}]

Init ==
  /\ srcMtime \in [SourceFiles -> Times]
  /\ summary \in [SourceFiles -> SummaryStates]
  /\ dismissedFile = [exists |-> FALSE, text |-> <<>>]
  /\ dismissed = EmptyObject
  /\ pc = "start"
  /\ directories = <<>>
  /\ idx = 1
  /\ dirLabel = ""
  /\ allFiles = <<>>
  /\ missingSummaries = <<>>
  /\ outdatedSummaries = <<>>
  /\ suppressed = <<>>
  /\ gitError = FALSE
  /\ action = ""
  /\ pass = NoPass
  /\ prompts = NoPrompts
  /\ chosen = NoPaths
  /\ saved = NoPaths

(***************************************************************************)
(* The process.                                                            *)
(***************************************************************************)
\* The possible answers of the checkbox prompt: the checked choices, in the
\* order of the choices.
Selections ==
  {LET Checked(l) == l \in S IN SelectSeq(Choices, Checked) : S \in SUBSET Labels}

Actions == {"Update summaries", "Dismiss these alerts", "Ignore for now"}

\* lines 106-108 with the first branch missing: only the last choice is spared
DismissChosenUnlessIgnored(answer) == answer # "Ignore for now"

\* the tests of lines 106 and 108: the second branch is taken
DismissChosen(answer) ==
  answer # "Update summaries" /\ answer = "Dismiss these alerts"

\* lines 27-28 moved out of the else: the file is written at every start
FileAfterLoadAlways(file, obj) == [exists |-> TRUE, text |-> Stringify(obj)]

\* lines 24 and 26-29: dismissed.json after the load; it is created with the
\* initial object only when pathExists returned false
FileAfterLoad(file, obj) ==
  IF file.exists THEN file ELSE [exists |-> TRUE, text |-> Stringify(obj)]

\* lines 21-29: module start
Load ==
  /\ pc = "start"
  /\ dismissed' = IF dismissedFile.exists
                    THEN ParseJSON(dismissedFile.text)
                    ELSE dismissed
  /\ dismissedFile' = FileAfterLoad(dismissedFile, dismissed)
  /\ pc' = "select"
  /\ UNCHANGED <<fsVars, directories, idx, frameVars, action, pass, prompts,
                 historyVars>>

\* lines 120-130: the checkbox prompt
Select(dirs) ==
  /\ pc = "select"
  /\ directories' = dirs
  /\ idx' = 1
  /\ pc' = "loop"
  /\ UNCHANGED <<fsVars, dismissedFile, dismissed, frameVars, action, pass,
                 prompts, historyVars>>

\* line 133 without its await: the loop goes on while the call is suspended
LoopGoesOn == FALSE

\* line 133: `await` holds the for loop until validateSummaries has returned
LoopWaits == TRUE

\* lines 132-133 and 46-104: the next directory is taken and validateSummaries
\* runs up to its return of line 75, to the prompt of line 93, or to a throw
\* of statSync (statOk = FALSE), which the catch of line 135 turns into exit 1.
Validate(gitOk, statOk) ==
  /\ pc = "loop"
  /\ idx <= Len(directories)
  /\ LET label == directories[idx]
         files == getGitTrackedFiles(label, gitOk)
         obj   == EnsureRecord(dismissed, label)
         miss  == MissingOf(label, files)
         outd  == OutdatedOf(obj, label, files)
     IN  /\ dismissed' = obj
         /\ dirLabel' = label
         /\ allFiles' = files
         /\ gitError' = ~gitOk
         /\ action' = ""
         /\ IF ~statOk /\ StatCalled(label, files)
              THEN /\ missingSummaries' = <<>>
                   /\ outdatedSummaries' = <<>>
                   /\ suppressed' = <<>>
                   /\ pass' = [pass EXCEPT ![label] = "Aborted"]
                   /\ pc' = "exit1"
                   /\ UNCHANGED <<idx, prompts>>
              ELSE /\ missingSummaries' = miss
                   /\ outdatedSummaries' = outd
                   /\ suppressed' = SuppressedOf(obj, label, files)
                   /\ IF NothingToReport(miss, outd)
                        THEN /\ pass' = [pass EXCEPT ![label] = "Done"]
                             /\ idx' = idx + 1
                             /\ pc' = "loop"
                             /\ UNCHANGED prompts
                        ELSE /\ pass' = [pass EXCEPT ![label] = "AwaitingDecision"]
                             /\ prompts' = [prompts EXCEPT ![label] = @ + 1]
                             /\ IF LoopWaits
                                  THEN /\ pc' = "prompt"
                                       /\ UNCHANGED idx
                                  ELSE /\ pc' = "loop"
                                       /\ idx' = idx + 1
  /\ UNCHANGED <<fsVars, dismissedFile, directories, historyVars>>

\* lines 106-115: the answer of the prompt of line 93 is applied;
\* writeOk = FALSE is writeJSON (line 111) rejecting, file untouched
Decide(answer, writeOk) ==
  /\ pc = "prompt"
  /\ action' = answer
  /\ IF DismissChosen(answer)
       THEN LET toDismiss == missingSummaries \o outdatedSummaries
                obj == [dismissed EXCEPT
                          ![dirLabel] = RecordDismissals(@, toDismiss)]
            IN  /\ dismissed' = obj
                /\ chosen' = [chosen EXCEPT ![dirLabel] = @ \cup Range(outdatedSummaries)]
                /\ IF writeOk
                     THEN /\ dismissedFile' = [exists |-> TRUE, text |-> Stringify(obj)]
                          /\ saved' = [saved EXCEPT ![dirLabel] = @ \cup Range(outdatedSummaries)]
                          /\ pass' = [pass EXCEPT ![dirLabel] = "Done"]
                          /\ idx' = idx + 1
                          /\ pc' = "loop"
                     ELSE /\ pass' = [pass EXCEPT ![dirLabel] = "Failed"]
                          /\ pc' = "exit1"
                          /\ UNCHANGED <<dismissedFile, saved, idx>>
       ELSE /\ pass' = [pass EXCEPT ![dirLabel] = "Done"]
            /\ idx' = idx + 1
            /\ pc' = "loop"
            /\ UNCHANGED <<dismissed, dismissedFile, historyVars>>
  /\ UNCHANGED <<fsVars, directories, frameVars, prompts>>

\* line 134: the loop is over and the process ends with status 0
Exit ==
  /\ pc = "loop"
  /\ idx > Len(directories)
  /\ pc' = "exit0"
  /\ UNCHANGED <<fsVars, dismissedFile, dismissed, directories, idx, frameVars,
                 action, pass, prompts, historyVars>>

\* the script is run again: a new process, whose memory is that of line 21
Restart ==
  /\ pc \in {"exit0", "exit1"}
  /\ pc' = "start"
  /\ dismissed' = EmptyObject
  /\ directories' = <<>>
  /\ idx' = 1
  /\ dirLabel' = ""
  /\ allFiles' = <<>>
  /\ missingSummaries' = <<>>
  /\ outdatedSummaries' = <<>>
  /\ suppressed' = <<>>
  /\ gitError' = FALSE
  /\ action' = ""
  /\ pass' = NoPass
  /\ prompts' = NoPrompts
  /\ UNCHANGED <<fsVars, dismissedFile, historyVars>>

(***************************************************************************)
(* The working tree between two runs of the script.                        *)
(***************************************************************************)
Forget(f) ==
  /\ chosen' = [chosen EXCEPT ![f[1]] = @ \ {f[2]}]
  /\ saved' = [saved EXCEPT ![f[1]] = @ \ {f[2]}]

\* a source file is edited
TouchSource(f, t) ==
  /\ pc = "start"
  /\ srcMtime[f] # t
  /\ srcMtime' = [srcMtime EXCEPT ![f] = t]
  /\ Forget(f)
  /\ UNCHANGED <<summary, dismissedFile, dismissed, pc, directories, idx,
                 frameVars, action, pass, prompts>>

\* a summary is written or rewritten
WriteSummary(f, t) ==
  /\ pc = "start"
  /\ summary[f] # [exists |-> TRUE, mtime |-> t]
  /\ summary' = [summary EXCEPT ![f] = [exists |-> TRUE, mtime |-> t]]
  /\ Forget(f)
  /\ UNCHANGED <<srcMtime, dismissedFile, dismissed, pc, directories, idx,
                 frameVars, action, pass, prompts>>

\* a summary is deleted
DeleteSummary(f) ==
  /\ pc = "start"
  /\ summary[f].exists
  /\ summary' = [summary EXCEPT ![f] = NoSummary]
  /\ Forget(f)
  /\ UNCHANGED <<srcMtime, dismissedFile, dismissed, pc, directories, idx,
                 frameVars, action, pass, prompts>>

Next ==
  \/ Load
  \/ \E dirs \in Selections : Select(dirs)
  \/ \E gitOk \in BOOLEAN, statOk \in BOOLEAN : Validate(gitOk, statOk)
  \/ \E answer \in Actions, writeOk \in BOOLEAN : Decide(answer, writeOk)
  \/ Exit
  \/ Restart
  \/ \E f \in SourceFiles, t \in Times : TouchSource(f, t)
  \/ \E f \in SourceFiles, t \in Times : WriteSummary(f, t)
  \/ \E f \in SourceFiles : DeleteSummary(f)

Spec == Init /\ [][Next]_vars

(***************************************************************************)
(* Properties.                                                             *)
(***************************************************************************)
\* the summary of a file is on disk
HasSummary(label, rel) ==
  <<label, rel>> \in SourceFiles /\ summary[<<label, rel>>].exists

\* the source of a file was modified after its summary
NewerThanSummary(label, rel) ==
  srcMtime[<<label, rel>>] > summary[<<label, rel>>].mtime

\* the dismissal set of a directory in an object
DismissalSet(obj, label) ==
  IF label \in DOMAIN obj THEN {obj[label][i] : i \in 1..Len(obj[label])} ELSE {}

\* the relative paths of a list of tracked files
TrackedPaths(label, files) ==
  {PathRelative(DirPath(label), files[i]) : i \in 1..Len(files)}

\* a step in which the pass of a directory finishes its classification
Classified(label) ==
  /\ pc = "loop"
  /\ pass[label] = "Idle"
  /\ pass'[label] \in {"AwaitingDecision", "Done"}

\* C1: in every pass, a tracked file without a summary is in the missing
\* list, whether or not its path is in the dismissal set of the directory.
C1_MissingAlwaysReported ==
  [][\A label \in Labels : Classified(label) =>
       \A rel \in TrackedPaths(label, allFiles') :
         ~HasSummary(label, rel) => rel \in Range(missingSummaries')]_vars

C1_Witness ==
  /\ pc = "prompt"
  /\ \E rel \in Range(missingSummaries) :
       /\ ~HasSummary(dirLabel, rel)
       /\ rel \in DismissalSet(dismissed, dirLabel)

\* C2: in every pass, a tracked file whose summary exists and is strictly
\* older than the source, and whose path is not in the dismissal set of the
\* directory, is in the outdated (stale) list.
C2_StaleReported ==
  [][\A label \in Labels : Classified(label) =>
       \A rel \in TrackedPaths(label, allFiles') :
         ( /\ HasSummary(label, rel)
           /\ NewerThanSummary(label, rel)
           /\ rel \notin DismissalSet(dismissed, label) )
         => rel \in Range(outdatedSummaries')]_vars

C2_Witness ==
  /\ pc = "prompt"
  /\ \E rel \in Range(outdatedSummaries) :
       /\ HasSummary(dirLabel, rel)
       /\ NewerThanSummary(dirLabel, rel)
       /\ rel \notin DismissalSet(dismissed, dirLabel)

C4_CurrentNotListed ==
  [][\A label \in Labels : Classified(label) =>
       \A rel \in TrackedPaths(label, allFiles') :
         ( /\ HasSummary(label, rel)
           /\ summary[<<label, rel>>].mtime >= srcMtime[<<label, rel>>] )
         => /\ rel \notin Range(missingSummaries')
            /\ rel \notin Range(outdatedSummaries')]_vars

C4_Witness ==
  /\ pc = "prompt"
  /\ \E rel \in TrackedPaths(dirLabel, allFiles) :
       /\ HasSummary(dirLabel, rel)
       /\ summary[<<dirLabel, rel>>].mtime = srcMtime[<<dirLabel, rel>>]
       /\ rel \notin Range(missingSummaries)
       /\ rel \notin Range(outdatedSummaries)

\* the entries written in dismissed.json
PersistedEntries(file) == {file.text[i] : i \in 1..Len(file.text)}

\* the entries of an object
ObjectEntries(obj) == {<<l, obj[l]>> : l \in DOMAIN obj}

\* a step in which the answer 'Dismiss these alerts' is applied
DismissStep(label) ==
  /\ pc = "prompt"
  /\ dirLabel = label
  /\ action' = "Dismiss these alerts"

C6_DismissUnionPersisted ==
  [][\A label \in Labels : DismissStep(label) =>
       /\ DismissalSet(dismissed', label) =
            DismissalSet(dismissed, label) \cup Range(missingSummaries)
              \cup Range(outdatedSummaries)
       /\ pass'[label] = "Done" =>
            /\ dismissedFile'.exists
            /\ PersistedEntries(dismissedFile') = ObjectEntries(dismissed')]_vars

C6_Witness ==
  /\ dirLabel \in Labels
  /\ action = "Dismiss these alerts"
  /\ pass[dirLabel] = "Done"
  /\ outdatedSummaries # <<>>
  /\ DismissalSet(dismissed, dirLabel)
       \ Range(missingSummaries \o outdatedSummaries) # {}
  /\ PersistedEntries(dismissedFile) = ObjectEntries(dismissed)

\* the lists of paths tried as a second recording
PathLists == UNION {[1..n -> {FileA, FileB}] : n \in 0..MaxRecordLen}

\* C7: whenever a recording can take place (the prompt of a directory is
\* open), for the dismissal set of the directory and every list of paths,
\* the list of the pass included, recording the list a second time changes
\* nothing, and the recorded set has no duplicate entry.
C7_RecordingIdempotent ==
  pc = "prompt" =>
    \A paths \in PathLists \cup {missingSummaries \o outdatedSummaries} :
      LET once  == RecordDismissals(dismissed[dirLabel], paths)
          twice == RecordDismissals(once, paths)
      IN  /\ twice = once
          /\ Len(twice) = Len(once)
          /\ \A i, j \in 1..Len(once) : once[i] = once[j] => i = j

C7_Witness ==
  /\ dirLabel \in Labels
  /\ action = "Dismiss these alerts"
  /\ pass[dirLabel] = "Done"
  /\ missingSummaries = <<FileA, FileB>>
  /\ dismissed[dirLabel] = <<FileB, FileA>>

\* the object dismissed.json stands for
PersistedSets(file, label) ==
  UNION {{e[2][i] : i \in 1..Len(e[2])} : e \in {x \in PersistedEntries(file) : x[1] = label}}

\* C8: applying 'Update summaries' or 'Ignore for now' changes neither the
\* object in memory nor dismissed.json; the dismissal sets held in
\* dismissed.json, and those held in memory while the process runs, change in
\* no step but the application of 'Dismiss these alerts'.
C8_OnlyDismissMutates ==
  [][/\ (pc = "prompt" /\ action' \in {"Update summaries", "Ignore for now"})
          => (dismissed' = dismissed /\ dismissedFile' = dismissedFile)
     /\ \A label \in Labels :
          ( \/ /\ dismissedFile' # dismissedFile
               /\ PersistedSets(dismissedFile', label) # PersistedSets(dismissedFile, label)
            \/ /\ pc \in {"select", "loop", "prompt"}
               /\ dismissed' # dismissed
               /\ DismissalSet(dismissed', label) # DismissalSet(dismissed, label) )
          => DismissStep(label)]_vars

C8_Witness ==
  /\ dirLabel \in Labels
  /\ action \in {"Update summaries", "Ignore for now"}
  /\ pass[dirLabel] = "Done"
  /\ outdatedSummaries # <<>>
  /\ DismissalSet(dismissed, dirLabel) # {}

\* C9: a pass whose two lists are empty is done at once, without a prompt
\* and without a write of dismissed.json; a pass with a non-empty list asks
\* for exactly one decision before it is done.
C9_PromptIffFindings ==
  /\ [](\A label \in Labels :
          /\ prompts[label] <= 1
          /\ (pass[label] = "Done" /\ dirLabel = label) =>
               (prompts[label] = 1 <=>
                  (missingSummaries # <<>> \/ outdatedSummaries # <<>>)))
  /\ [][\A label \in Labels : Classified(label) =>
          IF missingSummaries' = <<>> /\ outdatedSummaries' = <<>>
            THEN /\ pass'[label] = "Done"
                 /\ prompts'[label] = 0
                 /\ pc' = "loop"
                 /\ dismissedFile' = dismissedFile
            ELSE /\ pass'[label] = "AwaitingDecision"
                 /\ prompts'[label] = 1
                 /\ pc' = "prompt"]_vars

C9_Witness ==
  /\ directories = <<"Backend", "Frontend">>
  /\ pass["Backend"] = "Done"
  /\ prompts["Backend"] = 0
  /\ pass["Frontend"] = "Done"
  /\ prompts["Frontend"] = 1
  /\ outdatedSummaries # <<>>

\* C10: when statSync fails in the pass of a directory, only that pass is
\* aborted: every other selected directory has had its pass when the process
\* ends.
C10_StatFailureIsolated ==
  (pc \in {"exit0", "exit1"} /\ \E label \in Labels : pass[label] = "Aborted")
    => \A i \in 1..Len(directories) : pass[directories[i]] # "Idle"

\* C11: when writeJSON fails in the Dismiss step of a directory, only that
\* pass fails: every other selected directory has had its pass when the
\* process ends.
C11_WriteFailureIsolated ==
  (pc \in {"exit0", "exit1"} /\ \E label \in Labels : pass[label] = "Failed")
    => \A i \in 1..Len(directories) : pass[directories[i]] # "Idle"

\* C12: a pass whose git ls-files failed ends aborted: it is not done, no
\* action was asked for it and dismissed.json is as the load left it; the
\* loop then goes on with the next directory.
C12_GitFailureAborts ==
  /\ [](\A label \in Labels :
          (dirLabel = label /\ gitError) =>
             /\ pass[label] = "Aborted"
             /\ prompts[label] = 0)
  /\ [][\A label \in Labels :
          (Classified(label) /\ gitError') =>
             /\ dismissedFile' = dismissedFile
             /\ pc' = "loop"
             /\ idx' = idx + 1]_vars

\* The step of the load: the process leaves its start.
LoadStep == pc = "start" /\ pc' # "start"

ReportedNow(label) ==
  IF pc = "prompt" /\ dirLabel = label
    THEN Range(missingSummaries) \cup Range(outdatedSummaries)
    ELSE {}

\* C14: without dismissed.json all the arrays of `dismissed` are empty, and
\* from then on a path enters the array of a directory, in memory or in
\* dismissed.json, only in the Dismiss step of a pass of that directory that
\* has just reported it as missing or outdated (the load copies the file to
\* memory); so every dismissed path of a directory was reported by an earlier
\* pass of that directory.
C14_DismissedWasReported ==
  /\ [](~dismissedFile.exists =>
          \A label \in Labels : DismissalSet(dismissed, label) = {})
  /\ [][\A label \in Labels :
          /\ dismissedFile' # dismissedFile =>
               (PersistedSets(dismissedFile', label)
                  \ PersistedSets(dismissedFile, label)) \subseteq ReportedNow(label)
          /\ dismissed' # dismissed =>
               (DismissalSet(dismissed', label) \ DismissalSet(dismissed, label))
                 \subseteq (IF pc = "start"
                              THEN PersistedSets(dismissedFile, label)
                              ELSE ReportedNow(label))]_vars

C14_Witness ==
  /\ action = "Dismiss these alerts"
  /\ pass[dirLabel] = "Done"
  /\ missingSummaries # <<>>
  /\ Range(missingSummaries) \subseteq PersistedSets(dismissedFile, dirLabel)

\* C15: a Dismiss step whose write returned leaves in dismissed.json exactly
\* the keys and arrays of `dismissed`; the file then changes only by a later
\* such write, and the load of the next process start leaves in memory
\* exactly the keys and arrays of the file.
C15_StoreRoundTrip ==
  [][/\ \A label \in Labels :
          (DismissStep(label) /\ pass'[label] = "Done") =>
             PersistedEntries(dismissedFile') = ObjectEntries(dismissed')
     /\ dismissedFile' # dismissedFile =>
          \/ \E label \in Labels : DismissStep(label) /\ pass'[label] = "Done"
          \/ LoadStep /\ ~dismissedFile.exists
     /\ (LoadStep /\ dismissedFile.exists) =>
          ObjectEntries(dismissed') = PersistedEntries(dismissedFile)]_vars

C15_Witness ==
  /\ pc = "select"
  /\ \E label \in Labels : DismissalSet(dismissed, label) # {}
  /\ \E label \in Labels : label \in DOMAIN dismissed /\ dismissed[label] = <<>>
  /\ ObjectEntries(dismissed) = PersistedEntries(dismissedFile)

\* A pass that has ended: returned, or left by an exception.
Terminal == {"Done", "Aborted", "Failed"}

\* C16: the passes of the selected directories run one after the other: a
\* directory's pass has started only if the passes of all the directories
\* before it have ended; at most one pass waits for its action, and then the
\* process is at that prompt; dismissed.json is written, after the load, only
\* by the one pass that is at its action.
C16_PassesSequential ==
  /\ [](/\ \A i, j \in 1..Len(directories) :
             (i < j /\ pass[directories[j]] # "Idle") =>
                pass[directories[i]] \in Terminal
        /\ Cardinality({l \in Labels : pass[l] = "AwaitingDecision"}) <= 1
        /\ (\E l \in Labels : pass[l] = "AwaitingDecision") =>
             (pc = "prompt" /\ pass[dirLabel] = "AwaitingDecision"))
  /\ [][(dismissedFile' # dismissedFile /\ pc # "start") =>
          /\ pass[dirLabel] = "AwaitingDecision"
          /\ pass'[dirLabel] = "Done"
          /\ \A l \in Labels \ {dirLabel} :
               pass[l] \in Terminal \cup {"Idle"} /\ pass'[l] = pass[l]]_vars

C16_Witness ==
  /\ directories = <<"Backend", "Frontend">>
  /\ pass["Backend"] = "Done"
  /\ prompts["Backend"] = 1
  /\ PersistedSets(dismissedFile, "Backend") # {}
  /\ pass["Frontend"] = "AwaitingDecision"
  /\ pc = "prompt"

\* A path below the summary folder of the directory.
UnderSummary(p) == Len(p) >= 2 /\ p[1] = "summary" /\ p[2] = "/"

\* A path with a node_modules directory on its way.
InNodeModules(p) == \E i \in 1..(Len(p) - 1) : p[i] = "node_modules" /\ p[i + 1] = "/"

\* No element of the list occurs twice.
NoRepeat(list) == \A i, j \in 1..Len(list) : list[i] = list[j] => i = j

\* The elements of the list are lines of the sequence, in the order of the
\* sequence.
InOrderOf(list, lines) ==
  LET Pos(p) == CHOOSE k \in 1..Len(lines) : lines[k] = p
  IN  /\ \A i \in 1..Len(list) : list[i] \in Range(lines)
      /\ \A i, j \in 1..Len(list) : i < j => Pos(list[i]) < Pos(list[j])

C18_DismissedMissingReportedAgain ==
  [][\A label \in Labels : Classified(label) =>
       \A rel \in TrackedPaths(label, allFiles') :
         (rel \in DismissalSet(dismissed, label) /\ ~HasSummary(label, rel)) =>
            /\ rel \in Range(missingSummaries')
            /\ pass'[label] = "AwaitingDecision"
            /\ prompts'[label] = 1
            /\ pc' = "prompt"]_vars

C18_Witness ==
  /\ pc = "prompt"
  /\ prompts[dirLabel] = 1
  /\ \E rel \in Range(missingSummaries) :
       /\ ~HasSummary(dirLabel, rel)
       /\ rel \in PersistedSets(dismissedFile, dirLabel)
       /\ rel \notin Range(suppressed)

\* The process has ended.
Exited == pc \in {"exit0", "exit1"}

C20_DismissalsPerLabel ==
  [][\A label \in Labels :
       /\ DismissStep(label) =>
            \A other \in Labels \ {label} :
              /\ DismissalSet(dismissed', other) = DismissalSet(dismissed, other)
              /\ PersistedSets(dismissedFile', other)
                   = PersistedSets(dismissedFile, other)
       /\ Classified(label) =>
            \A rel \in TrackedPaths(label, allFiles') :
              ( /\ HasSummary(label, rel)
                /\ NewerThanSummary(label, rel)
                /\ rel \notin DismissalSet(dismissed, label)
                /\ \E other \in Labels \ {label} :
                     rel \in DismissalSet(dismissed, other) )
                => rel \in Range(outdatedSummaries')]_vars

C20_Witness ==
  /\ pc = "prompt"
  /\ dirLabel = "Frontend"
  /\ FileA \in Range(outdatedSummaries)
  /\ FileA \in PersistedSets(dismissedFile, "Backend")
  /\ FileA \notin DismissalSet(dismissed, "Frontend")

====
